---------------------------- MODULE Spec2Model ----------------------------
(* sysglance: a terminal system dashboard (src/sysglance.py).              *)
(*                                                                          *)
(* The module models the formatter make_bar, the panel builders, the fixed  *)
(* layout, refresh_panels and the two modes of main.  Percentages are       *)
(* floats in the source; here a percentage p is the integer p * Scale, so   *)
(* that values between whole percents exist.  A text is a sequence of word  *)
(* tokens, so that "the text contains ..." is something that can be tested. *)
EXTENDS Integers, Sequences, FiniteSets, TLC

VARIABLES
    barArgs,      \* <<>>, or <<arguments of the make_bar call under study>>
    barOut,       \* <<>> before the call, <<Text>> after it
    gpuEnv,       \* <<>>, or <<what which / subprocess.run answer to gpu_panel>>
    gpuOut,       \* <<>> before the call, <<result of gpu_panel>> after it
    dockerEnv,    \* <<>>, or <<what which / subprocess.run answer to docker_panel>>
    dockerOut,    \* <<>> before the call, <<result of docker_panel>> after it
    diskArgs,     \* <<>>, or <<what psutil answers to the disk_panel call under study>>
    diskOut,      \* <<>> before the call, <<result of disk_panel>> after it
    procArgs,     \* <<>>, or <<what process_iter yields to the proc_panel call under study>>
    procOut,      \* <<>> before the call, <<result of proc_panel>> after it
    once,         \* args.once
    pc,           \* position of the main thread in main()
    cycle,        \* number of the refresh_panels call in progress (or last)
    layout,       \* region name -> the block it holds and the cycle that made it
    live,         \* whether the Live display (and its refresh thread) is running
    screen,       \* <<>> or <<what the last draw showed>>
    printed,      \* number of console.print(layout) emissions
    exitStatus,   \* "running", or the exit status of the process
    error,        \* "none", or the exception that left main
    drawn,        \* tool -> what the tool answered in the current cycle
    trace         \* the steps main has completed, in order

barVars    == <<barArgs, barOut>>
gpuVars    == <<gpuEnv, gpuOut>>
dockerVars == <<dockerEnv, dockerOut>>
diskVars   == <<diskArgs, diskOut>>
procVars   == <<procArgs, procOut>>
mainVars   == <<once, pc, cycle, layout, live, screen, printed, exitStatus, error,
                drawn, trace>>
vars       == <<barArgs, barOut, gpuEnv, gpuOut, dockerEnv, dockerOut,
                diskArgs, diskOut, procArgs, procOut,
                once, pc, cycle, layout, live, screen, printed, exitStatus, error,
                drawn, trace>>

---------------------------------------------------------------------------
(* Bounds of the model.                                                     *)

\* a percentage p is represented by the integer p * Scale
Scale == 2
\* longest tool output (in lines) given to gpu_panel and docker_panel
MaxRows == 3
\* refresh cycles the continuous loop is followed for
MaxCycles == 3
\* longest partition list given to disk_panel
MaxParts == 3
\* longest process list given to proc_panel
MaxProcs == 6

(* Program constants.                                                       *)
BarWidth == 30
CriticalPct == 85
WarningPct == 60

\* Python's None, for a value psutil could not read
None == 0 - 1

Min(a, b) == IF a < b THEN a ELSE b

---------------------------------------------------------------------------
(* Texts.                                                                   *)

\* TRUE iff the token sequence `needle` occurs contiguously in `text`
Contains(text, needle) ==
    \E i \in 0..(Len(text) - Len(needle)) :
        \A j \in 1..Len(needle) : text[i + j] = needle[j]

---------------------------------------------------------------------------
(* make_bar                                                                 *)

Percents == 0..(100 * Scale)
BaseColors == {"green", "cyan", "red", "yellow"}
Labels == {"Core 0", "Average"}

\* the mutant of make_bar for C1: inclusive thresholds
make_bar_inclusive(label, pct, color) ==
    LET filled == (BarWidth * pct) \div (100 * Scale)
        c == IF pct >= CriticalPct * Scale THEN "red"
             ELSE IF pct >= WarningPct * Scale THEN "yellow"
             ELSE color
    IN [label |-> label, filled |-> filled, empty |-> BarWidth - filled,
        pct |-> pct, barStyle |-> c, pctStyle |-> <<"bold", c>>]

\* make_bar(label, pct, color): the three spans of the assembled Text
make_bar(label, pct, color) ==
    LET filled == (BarWidth * pct) \div (100 * Scale)
        c == IF pct > CriticalPct * Scale THEN "red"
             ELSE IF pct > WarningPct * Scale THEN "yellow"
             ELSE color
    IN [label |-> label, filled |-> filled, empty |-> BarWidth - filled,
        pct |-> pct, barStyle |-> c, pctStyle |-> <<"bold", c>>]

BarIdle == barArgs = <<>> /\ barOut = <<>>

InitBar ==
    /\ barArgs \in {<<a>> : a \in [label : Labels, pct : Percents, color : BaseColors]}
    /\ barOut = <<>>

CallMakeBar ==
    /\ barArgs # <<>>
    /\ barOut = <<>>
    /\ barOut' = <<make_bar(barArgs[1].label, barArgs[1].pct, barArgs[1].color)>>
    /\ UNCHANGED barArgs

---------------------------------------------------------------------------
(* Panels.  A Panel wraps either one Text (kind "text"), a list of Text     *)
(* lines joined by newlines (kind "lines") or a Table (kind "table").       *)

TextPanel(title, text) ==
    [title |-> title, kind |-> "text", text |-> text, lines |-> <<>>, rows |-> <<>>]
LinesPanel(title, lines) ==
    [title |-> title, kind |-> "lines", text |-> <<>>, lines |-> lines, rows |-> <<>>]
TablePanel(title, rows) ==
    [title |-> title, kind |-> "table", text |-> <<>>, lines |-> <<>>, rows |-> rows]

---------------------------------------------------------------------------
(* External tools.  shutil.which answers found / not found; subprocess.run  *)
(* either returns a CompletedProcess (kind "exit") or raises                *)
(* TimeoutExpired after its 5 seconds (kind "timeout").  stdout is the      *)
(* sequence of its lines; a line is a sequence of tokens.                   *)

Completed(rc, out) == [kind |-> "exit", returncode |-> rc, stdout |-> out]
TimedOut == [kind |-> "timeout", returncode |-> 0, stdout |-> <<>>]
NotRun == [kind |-> "none", returncode |-> 0, stdout |-> <<>>]

\* all sequences over S of length at most n
SeqsUpTo(S, n) == UNION {[1..k -> S] : k \in 0..n}

\* str.strip() then str.splitlines(): leading and trailing blank lines go
RECURSIVE DropLeadingBlank(_)
DropLeadingBlank(ls) ==
    IF ls = <<>> THEN <<>>
    ELSE IF Head(ls) = <<>> THEN DropLeadingBlank(Tail(ls))
    ELSE ls

RECURSIVE DropTrailingBlank(_)
DropTrailingBlank(ls) ==
    IF ls = <<>> THEN <<>>
    ELSE IF ls[Len(ls)] = <<>> THEN DropTrailingBlank(SubSeq(ls, 1, Len(ls) - 1))
    ELSE ls

StripSplitLines(out) == DropTrailingBlank(DropLeadingBlank(out))

\* row.split(","): the fields between the "," tokens (always at least one)
RECURSIVE SplitComma(_)
SplitComma(row) ==
    IF \A i \in 1..Len(row) : row[i] # ","
    THEN <<row>>
    ELSE LET k == CHOOSE i \in 1..Len(row) :
                      row[i] = "," /\ \A j \in 1..(i - 1) : row[j] # ","
         IN <<SubSeq(row, 1, k - 1)>> \o SplitComma(SubSeq(row, k + 1, Len(row)))

\* float(text): the texts that parse, with their values; any other raises
FloatTable == [t \in {"0", "45", "90"} |->
                  IF t = "0" THEN 0 ELSE IF t = "45" THEN 45 ELSE 90]
FloatRaises(field) == Len(field) # 1 \/ field[1] \notin DOMAIN FloatTable
FloatOf(field) == FloatTable[field[1]]

---------------------------------------------------------------------------
(* gpu_panel                                                                *)

GpuTitle == "GPU Usage"
GpuNotFoundText == <<"No", "GPU", "detected", "(", "nvidia-smi", "not", "found", ")">>
GpuErrorText == <<"nvidia-smi", "returned", "an", "error">>
GpuNoDataText == <<"No", "GPU", "data", "returned">>
GpuGenericText == <<"No", "GPU", "detected">>

\* the three lines gpu_panel appends for one record
GpuRecordLines(parts) ==
    << [t |-> "bar",
        bar |-> make_bar(<<"GPU">> \o parts[1], FloatOf(parts[3]) * Scale, "green")],
       [t |-> "detail", name |-> parts[2], mem_used |-> parts[4],
        mem_total |-> parts[5], temp |-> parts[6], unit |-> "C"],
       [t |-> "blank"] >>

\* the mutant of GpuRow for C7: a short record ends the panel like a bad one
GpuRow_short_raises(row) ==
    LET parts == SplitComma(row) IN
    IF Len(parts) # 6 THEN [raised |-> TRUE, lines |-> <<>>]
    ELSE IF FloatRaises(parts[3]) THEN [raised |-> TRUE, lines |-> <<>>]
    ELSE [raised |-> FALSE, lines |-> GpuRecordLines(parts)]

\* one pass of the loop body: skip, raise ValueError, or three lines
GpuRow(row) ==
    LET parts == SplitComma(row) IN
    IF Len(parts) < 6 THEN [raised |-> FALSE, lines |-> <<>>]
    ELSE IF Len(parts) # 6 THEN [raised |-> TRUE, lines |-> <<>>]
    ELSE IF FloatRaises(parts[3]) THEN [raised |-> TRUE, lines |-> <<>>]
    ELSE [raised |-> FALSE, lines |-> GpuRecordLines(parts)]

\* the mutant of GpuLines for C17: a record that cannot be unpacked or
\* converted is passed over and the bars of the other records are kept
RECURSIVE GpuLines_keeps_bars(_)
GpuLines_keeps_bars(rows) ==
    IF rows = <<>> THEN [raised |-> FALSE, lines |-> <<>>]
    ELSE LET r == GpuRow(Head(rows))
             rest == GpuLines_keeps_bars(Tail(rows))
         IN [raised |-> FALSE, lines |-> r.lines \o rest.lines]

\* the loop over the rows; an exception leaves it at once
RECURSIVE GpuLines(_)
GpuLines(rows) ==
    IF rows = <<>> THEN [raised |-> FALSE, lines |-> <<>>]
    ELSE LET r == GpuRow(Head(rows)) IN
         IF r.raised THEN r
         ELSE LET rest == GpuLines(Tail(rows)) IN
              IF rest.raised THEN rest
              ELSE [raised |-> FALSE, lines |-> r.lines \o rest.lines]

\* the mutant of gpu_panel for C6: the returncode test is missing
gpu_panel_no_returncode_test(env) ==
    IF ~env.which
    THEN [raised |-> FALSE, panel |-> TextPanel(GpuTitle, GpuNotFoundText), calls |-> <<"which">>]
    ELSE IF env.run.kind = "timeout"
    THEN [raised |-> FALSE, panel |-> TextPanel(GpuTitle, GpuGenericText), calls |-> <<"which", "run">>]
    ELSE LET r == GpuLines(StripSplitLines(env.run.stdout)) IN
         [raised |-> FALSE, panel |-> IF r.raised THEN TextPanel(GpuTitle, GpuGenericText)
                    ELSE IF r.lines = <<>> THEN TextPanel(GpuTitle, GpuNoDataText)
                    ELSE LinesPanel(GpuTitle, r.lines),
          calls |-> <<"which", "run">>]

\* the mutant of gpu_panel for C8: the tool is run before it is looked up
gpu_panel_run_first(env) ==
    IF ~env.which
    THEN [raised |-> FALSE, panel |-> TextPanel(GpuTitle, GpuNotFoundText), calls |-> <<"run", "which">>]
    ELSE [raised |-> FALSE, panel |-> TextPanel(GpuTitle, GpuGenericText), calls |-> <<"run", "which">>]

\* gpu_panel(): the panel, and the external calls made, in order
gpu_panel(env) ==
    IF ~env.which
    THEN [raised |-> FALSE, panel |-> TextPanel(GpuTitle, GpuNotFoundText), calls |-> <<"which">>]
    ELSE IF env.run.kind = "timeout"
    THEN [raised |-> FALSE, panel |-> TextPanel(GpuTitle, GpuGenericText), calls |-> <<"which", "run">>]
    ELSE IF env.run.returncode # 0
    THEN [raised |-> FALSE, panel |-> TextPanel(GpuTitle, GpuErrorText), calls |-> <<"which", "run">>]
    ELSE LET r == GpuLines(StripSplitLines(env.run.stdout)) IN
         [raised |-> FALSE, panel |-> IF r.raised THEN TextPanel(GpuTitle, GpuGenericText)
                    ELSE IF r.lines = <<>> THEN TextPanel(GpuTitle, GpuNoDataText)
                    ELSE LinesPanel(GpuTitle, r.lines),
          calls |-> <<"which", "run">>]

\* nvidia-smi output lines the model draws from
RowGood0 == <<"0", ",", "RTX 4090", ",", "45", ",", "2048", ",", "24576", ",", "55">>
RowGood1 == <<"1", ",", "A100", ",", "90", ",", "512", ",", "40960", ",", "70">>
RowShort == <<"0", ",", "RTX 4090", ",", "45">>
RowLong == <<"2", ",", "Tesla", ",", "K80", ",", "0", ",", "1", ",", "11441", ",", "40">>
RowNotNumeric == <<"3", ",", "GT 710", ",", "[N/A]", ",", "10", ",", "2048", ",", "30">>
RowBlank == <<>>
GpuRowSet == {RowGood0, RowGood1, RowShort, RowLong, RowNotNumeric, RowBlank}

GpuEnvs(n) ==
    {[which |-> FALSE, run |-> NotRun]}
    \cup {[which |-> TRUE, run |-> r] :
            r \in {TimedOut, Completed(1, <<>>), Completed(1, <<RowGood0>>)}
                  \cup {Completed(0, out) : out \in SeqsUpTo(GpuRowSet, n)}}

GpuIdle == gpuEnv = <<>> /\ gpuOut = <<>>

InitGpu ==
    /\ gpuEnv \in {<<e>> : e \in GpuEnvs(MaxRows)}
    /\ gpuOut = <<>>

CallGpuPanel ==
    /\ gpuEnv # <<>>
    /\ gpuOut = <<>>
    /\ gpuOut' = <<gpu_panel(gpuEnv[1])>>
    /\ UNCHANGED gpuEnv

---------------------------------------------------------------------------
(* docker_panel.  A character string is known by its content, its length    *)
(* and whether "Up" occurs in it: [chars, len, up, ell]; ell says that an   *)
(* ellipsis was appended.  A line of 'docker ps' output is <<>> (blank) or  *)
(* <<j>>, j what json.loads makes of it: [json |-> "invalid"] (not JSON),   *)
(* [json |-> "object", obj |-> key -> string] or [json |-> "array"] (JSON,  *)
(* but no object).                                                          *)

NameMax == 20
ImageMax == 25
StatusMax == 25
PortsMax == 40
PortsKeep == 37
MsgMax == 80

Str(chars, len, up) == [chars |-> chars, len |-> len, up |-> up, ell |-> FALSE]
\* s[:n]
Slice(s, n) == [s EXCEPT !.len = Min(s.len, n)]
\* s[:n] + "..."
SliceEllipsis(s, n) == [s EXCEPT !.len = Min(s.len, n) + 3, !.ell = TRUE]
\* dict.get(key, default)
Get(c, key, default) == IF key \in DOMAIN c THEN c[key] ELSE default

DockerTitle == "Docker Containers"
DockerNotFoundText == Str("docker not found in PATH", 24, FALSE)
DockerErrorText == Str("docker returned an error", 24, FALSE)
DockerNoneText == Str("No running containers", 21, FALSE)
DockerFailText == Str("Could not query Docker", 22, FALSE)

\* _docker_panel(msg)
DockerMsgPanel(msg) == TextPanel(DockerTitle, msg)

\* the row _docker_container_row adds for a parsed object c
DockerRowOf(c) ==
    LET status == Get(c, "Status", Get(c, "State", Str("", 0, FALSE)))
        color == IF status.up THEN "green" ELSE "yellow"
        ports0 == Get(c, "Ports", Str("", 0, FALSE))
        ports == IF ports0.len > PortsMax THEN SliceEllipsis(ports0, PortsKeep)
                 ELSE ports0
    IN [name |-> Slice(Get(c, "Names", Str("?", 1, FALSE)), NameMax),
        image |-> Slice(Get(c, "Image", Str("?", 1, FALSE)), ImageMax),
        status |-> Slice(status, StatusMax),
        color |-> color,
        ports |-> ports]

\* _docker_container_row(table, line): the rows it adds, or the exception
\* that leaves it (JSONDecodeError is caught inside; c.get on a value that
\* is no dict raises AttributeError, which is not)
DockerContainerRow(line) ==
    IF line = <<>> THEN [raised |-> FALSE, rows |-> <<>>]
    ELSE IF line[1].json = "invalid" THEN [raised |-> FALSE, rows |-> <<>>]
    ELSE IF line[1].json # "object" THEN [raised |-> TRUE, rows |-> <<>>]
    ELSE [raised |-> FALSE, rows |-> <<DockerRowOf(line[1].obj)>>]

\* _docker_table(lines): an exception in a row leaves the loop at once
RECURSIVE DockerTableRows(_)
DockerTableRows(lines) ==
    IF lines = <<>> THEN [raised |-> FALSE, rows |-> <<>>]
    ELSE LET r == DockerContainerRow(Head(lines)) IN
         IF r.raised THEN r
         ELSE LET rest == DockerTableRows(Tail(lines)) IN
              IF rest.raised THEN rest
              ELSE [raised |-> FALSE, rows |-> r.rows \o rest.rows]

\* result.stderr.strip().split("\n")[0] if result.stderr else the default
DockerErrorMsg(stderr) ==
    IF stderr = <<>> THEN DockerErrorText
    ELSE LET ls == StripSplitLines(stderr) IN
         IF ls = <<>> THEN Str("", 0, FALSE) ELSE ls[1][1]

\* the mutant of docker_panel for C8: the tool is run before it is looked up
docker_panel_run_first(env) ==
    IF ~env.which
    THEN [raised |-> FALSE, panel |-> DockerMsgPanel(DockerNotFoundText), calls |-> <<"run", "which">>]
    ELSE [raised |-> FALSE, panel |-> DockerMsgPanel(DockerFailText), calls |-> <<"run", "which">>]

\* the mutant of docker_panel for C9: TimeoutExpired is not caught
docker_panel_timeout_escapes(env) ==
    IF ~env.which
    THEN [raised |-> FALSE, panel |-> DockerMsgPanel(DockerNotFoundText), calls |-> <<"which">>]
    ELSE IF env.run.kind = "timeout"
    THEN [raised |-> TRUE, panel |-> DockerMsgPanel(DockerFailText), calls |-> <<"which", "run">>]
    ELSE [raised |-> FALSE, panel |-> DockerMsgPanel(DockerNoneText), calls |-> <<"which", "run">>]

\* docker_panel(): the panel, and the external calls made, in order
docker_panel(env) ==
    IF ~env.which
    THEN [raised |-> FALSE, panel |-> DockerMsgPanel(DockerNotFoundText), calls |-> <<"which">>]
    ELSE IF env.run.kind = "timeout"
    THEN [raised |-> FALSE, panel |-> DockerMsgPanel(DockerFailText), calls |-> <<"which", "run">>]
    ELSE IF env.run.returncode # 0
    THEN [raised |-> FALSE, panel |-> DockerMsgPanel(Slice(DockerErrorMsg(env.run.stderr), MsgMax)),
          calls |-> <<"which", "run">>]
    ELSE LET lines == StripSplitLines(env.run.stdout) IN
         IF lines = <<>>
         THEN [raised |-> FALSE, panel |-> DockerMsgPanel(DockerNoneText), calls |-> <<"which", "run">>]
         ELSE LET r == DockerTableRows(lines) IN
              [raised |-> FALSE, panel |-> IF r.raised THEN DockerMsgPanel(DockerFailText)
                         ELSE TablePanel(DockerTitle, r.rows),
               calls |-> <<"which", "run">>]

DockerCompleted(rc, out, err) ==
    [kind |-> "exit", returncode |-> rc, stdout |-> out, stderr |-> err]
DockerTimedOut == [kind |-> "timeout", returncode |-> 0, stdout |-> <<>>, stderr |-> <<>>]
DockerNotRun == [kind |-> "none", returncode |-> 0, stdout |-> <<>>, stderr |-> <<>>]

\* 'docker ps' output lines the model draws from
LineUp ==
    << [json |-> "object",
        obj |-> [Names |-> Str("web", 3, FALSE), Image |-> Str("nginx:latest", 12, FALSE),
                 Status |-> Str("Up 2 hours", 10, TRUE),
                 Ports |-> Str("0.0.0.0:80->80/tcp, 0.0.0.0:443->443/tcp", 45, FALSE)]] >>
LineExited ==
    << [json |-> "object",
        obj |-> [Names |-> Str("a-rather-long-container-name", 28, FALSE),
                 Image |-> Str("registry.example/team/service:1", 31, FALSE),
                 Status |-> Str("Exited (0) 3 days ago", 21, FALSE),
                 Ports |-> Str("", 0, FALSE)]] >>
LineStateOnly ==
    << [json |-> "object",
        obj |-> [Names |-> Str("db", 2, FALSE), State |-> Str("running", 7, FALSE)]] >>
LineNotJson == << [json |-> "invalid"] >>
LineJsonArray == << [json |-> "array"] >>
LineBlank == <<>>
DockerLineSet == {LineUp, LineExited, LineStateOnly, LineNotJson, LineJsonArray, LineBlank}

DockerStderrs ==
    { <<>>, <<LineBlank>>,
      << <<Str("Cannot connect to the Docker daemon", 95, FALSE)>>,
         <<Str("Is the docker daemon running?", 29, FALSE)>> >> }

DockerEnvs(n) ==
    {[which |-> FALSE, run |-> DockerNotRun]}
    \cup {[which |-> TRUE, run |-> r] :
            r \in {DockerTimedOut}
                  \cup {DockerCompleted(1, <<>>, err) : err \in DockerStderrs}
                  \cup {DockerCompleted(0, out, <<>>) : out \in SeqsUpTo(DockerLineSet, n)}}

DockerIdle == dockerEnv = <<>> /\ dockerOut = <<>>

InitDocker ==
    /\ dockerEnv \in {<<e>> : e \in DockerEnvs(MaxRows)}
    /\ dockerOut = <<>>

CallDockerPanel ==
    /\ dockerEnv # <<>>
    /\ dockerOut = <<>>
    /\ dockerOut' = <<docker_panel(dockerEnv[1])>>
    /\ UNCHANGED dockerEnv

---------------------------------------------------------------------------
(* The psutil-backed builders.  Each returns [raised, panel]: raised says   *)
(* that an exception left the builder, and then there is no panel.          *)

NoPanel == [title |-> "", kind |-> "none", text |-> <<>>, lines |-> <<>>, rows |-> <<>>]
Returned(panel) == [raised |-> FALSE, panel |-> panel]
Raised == [raised |-> TRUE, panel |-> NoPanel]

\* header_panel(): clock and uptime; up is now - boot in whole seconds
header_panel(up) ==
    LET days == up \div 86400
        rem == up % 86400
        hours == rem \div 3600
        mins == (rem % 3600) \div 60
    IN Returned(TextPanel("", <<"up", days, "d", hours, "h", mins, "m", "sysglance">>))

\* cpu_panel(): one bar per core, a blank line, the Average bar in cyan
cpu_panel(percents, avg) ==
    Returned(LinesPanel("CPU Usage",
        [i \in 1..Len(percents) |->
            [t |-> "bar", bar |-> make_bar(<<"Core", i - 1>>, percents[i], "green")]]
        \o << [t |-> "blank"],
              [t |-> "bar", bar |-> make_bar("Average", avg, "cyan")] >>))

\* mem_panel(): RAM and Swap bars, each with its used / total line
mem_panel(vm, sw) ==
    Returned(LinesPanel("Memory",
        << [t |-> "bar", bar |-> make_bar("RAM", vm.percent, "green")],
           [t |-> "detail", used |-> vm.used, total |-> vm.total],
           [t |-> "blank"],
           [t |-> "bar",
            bar |-> make_bar("Swap", IF sw.total # 0 THEN sw.percent ELSE 0, "green")],
           [t |-> "detail", used |-> sw.used, total |-> sw.total] >>))

\* net_panel(): one row per interface with traffic; counters is sorted by name
net_panel(counters) ==
    LET busy == SelectSeq(counters, LAMBDA io : ~(io.bytes_sent = 0 /\ io.bytes_recv = 0))
    IN Returned(TablePanel("Network I/O",
        [i \in 1..Len(busy) |->
            [iface |-> busy[i].iface, sent |-> busy[i].bytes_sent,
             recv |-> busy[i].bytes_recv, unit |-> "MiB"]]))

\* the colour of a disk percentage
DiskColor(pct) ==
    IF pct < WarningPct * Scale THEN "green"
    ELSE IF pct < CriticalPct * Scale THEN "yellow"
    ELSE "red"

\* the mutant of DiskRows for C11: a partition that may not be read gets
\* an error row
RECURSIVE DiskRows_error_row(_, _)
DiskRows_error_row(parts, usage) ==
    IF parts = <<>> THEN [raised |-> FALSE, rows |-> <<>>]
    ELSE LET u == Head(usage) IN
         IF u.kind = "OSError" THEN [raised |-> TRUE, rows |-> <<>>]
         ELSE LET rest == DiskRows_error_row(Tail(parts), Tail(usage)) IN
              IF rest.raised THEN rest
              ELSE [raised |-> FALSE,
                    rows |-> << [mount |-> Head(parts), pct |-> u.percent,
                                 color |-> DiskColor(u.percent)] >> \o rest.rows]

\* the loop of disk_panel over the partitions: usage[i] is what
\* psutil.disk_usage answers for parts[i]: a percentage, PermissionError
\* (caught: the partition is skipped) or another OSError (not caught)
RECURSIVE DiskRows(_, _)
DiskRows(parts, usage) ==
    IF parts = <<>> THEN [raised |-> FALSE, rows |-> <<>>]
    ELSE LET u == Head(usage) IN
         IF u.kind = "OSError" THEN [raised |-> TRUE, rows |-> <<>>]
         ELSE LET rest == DiskRows(Tail(parts), Tail(usage)) IN
              IF rest.raised THEN rest
              ELSE IF u.kind = "PermissionError" THEN rest
              ELSE [raised |-> FALSE,
                    rows |-> << [mount |-> Head(parts), pct |-> u.percent,
                                 color |-> DiskColor(u.percent)] >> \o rest.rows]

\* disk_panel()
disk_panel(parts, usage) ==
    LET r == DiskRows(parts, usage) IN
    IF r.raised THEN Raised ELSE Returned(TablePanel("Disk Usage", r.rows))

ProcTop == 5
ProcNameMax == 25

\* x.get("cpu_percent") or 0
ProcKey(info) == IF info.cpu_percent = None THEN 0 ELSE info.cpu_percent

\* list.sort(key=ProcKey, reverse=True): stable, descending
RECURSIVE ProcInsert(_, _)
ProcInsert(sorted, info) ==
    IF sorted = <<>> THEN <<info>>
    ELSE IF ProcKey(Head(sorted)) >= ProcKey(info)
         THEN <<Head(sorted)>> \o ProcInsert(Tail(sorted), info)
         ELSE <<info>> \o sorted

RECURSIVE ProcSort(_)
ProcSort(procs) ==
    IF procs = <<>> THEN <<>>
    ELSE ProcInsert(ProcSort(SubSeq(procs, 1, Len(procs) - 1)), procs[Len(procs)])

\* the row of one process; f"{None:.1f}" raises TypeError
ProcRow(info) ==
    [pid |-> info.pid,
     name |-> Slice(IF info.name.len = 0 THEN Str("?", 1, FALSE) ELSE info.name,
                    ProcNameMax),
     cpu |-> info.cpu_percent,
     mem |-> IF info.memory_percent = None \/ info.memory_percent = 0
             THEN "-" ELSE "number",
     memval |-> info.memory_percent]

\* proc_panel(): the processes whose info could be read, ranked, the first 5
proc_panel(procs) ==
    LET readable == SelectSeq(procs, LAMBDA p : ~p.info_raises)
        ranked == ProcSort(readable)
        top == SubSeq(ranked, 1, Min(ProcTop, Len(ranked)))
    IN IF \E i \in 1..Len(top) : top[i].cpu_percent = None
       THEN Raised
       ELSE Returned(TablePanel("Top Processes (CPU)",
                                [i \in 1..Len(top) |-> ProcRow(top[i])]))

---------------------------------------------------------------------------
(* The layout.                                                              *)

\* the regions refresh_panels updates, in its order
Regions == <<"header", "cpu", "mem", "disk", "proc", "net", "docker", "gpu">>
RegionSet == {Regions[i] : i \in 1..Len(Regions)}
Nodes == RegionSet \cup {"root", "upper", "lower", "left", "right"}

\* what a Layout holds until update() is called on it
Placeholder == [title |-> "", kind |-> "placeholder", text |-> <<>>, lines |-> <<>>,
                rows |-> <<>>]

\* build_layout(): each node's children, and the block it holds with the
\* number of the cycle that put it there (0: none yet)
build_layout ==
    [n \in Nodes |->
        [children |-> CASE n = "root" -> <<"header", "upper", "lower">>
                        [] n = "upper" -> <<"cpu", "mem">>
                        [] n = "lower" -> <<"left", "right">>
                        [] n = "left" -> <<"disk", "net">>
                        [] n = "right" -> <<"proc", "docker", "gpu">>
                        [] OTHER -> <<>>,
         cycle |-> 0,
         panel |-> Placeholder]]

\* the mutant of Update for C13: the update splits the region anew
Update_resplit(l, name, panel, c) ==
    [l EXCEPT ![name].panel = panel, ![name].cycle = c, ![name].children = <<"body">>]

\* layout[name].update(panel), in cycle c
Update(l, name, panel, c) == [l EXCEPT ![name].panel = panel, ![name].cycle = c]

\* what a draw of the layout shows: for each region, the cycle of its block
Snapshot(l) == [r \in RegionSet |-> l[r].cycle]

---------------------------------------------------------------------------
(* The samples and tool answers main's builders see.                        *)

UpSamples == {93784}
CpuSamples == {[percents |-> <<30 * Scale, 90 * Scale>>, avg |-> 60 * Scale]}
MemSamples == {[vm |-> [percent |-> 62 * Scale, used |-> 10, total |-> 16],
                sw |-> [percent |-> 0, used |-> 0, total |-> 0]]}
NetSamples == {<< [iface |-> "eth0", bytes_sent |-> 5, bytes_recv |-> 10],
                  [iface |-> "lo", bytes_sent |-> 0, bytes_recv |-> 0] >>}
Usage(kind, pct) == [kind |-> kind, percent |-> pct]
DiskSamples ==
    {[parts |-> <<"/", "/mnt/secret">>, usage |-> <<Usage("ok", 40 * Scale), u>>] :
        u \in {Usage("ok", 85 * Scale), Usage("PermissionError", 0), Usage("OSError", 0)}}
Proc(pid, name, cpu, mem, bad) ==
    [pid |-> pid, name |-> name, cpu_percent |-> cpu, memory_percent |-> mem,
     info_raises |-> bad]
ProcSamples ==
    {<<Proc(1, Str("python", 6, FALSE), 45, 2, FALSE), Proc(2, Str("bash", 4, FALSE), c, None, b)>> :
        c \in {1, None}, b \in BOOLEAN}
DockerEnvsMain ==
    {[which |-> FALSE, run |-> DockerNotRun]}
    \cup {[which |-> TRUE, run |-> r] :
            r \in {DockerTimedOut, DockerCompleted(1, <<>>, <<>>),
                   DockerCompleted(0, <<LineUp>>, <<>>)}}
GpuEnvsMain ==
    {[which |-> FALSE, run |-> NotRun]}
    \cup {[which |-> TRUE, run |-> r] :
            r \in {TimedOut, Completed(1, <<>>), Completed(0, <<RowGood0>>)}}

\* what a tool answered, in a word
Answer(env) == IF ~env.which THEN "notfound" ELSE env.run.kind

---------------------------------------------------------------------------
(* disk_panel and proc_panel on their own: what psutil answers is drawn     *)
(* from bounded sets, the action applies the builder.                       *)

MountSet == {"/", "/home", "/mnt/data"}
\* what psutil.disk_usage does for one partition
DiskUsages ==
    {Usage("ok", 40 * Scale), Usage("ok", 85 * Scale),
     Usage("PermissionError", 0), Usage("OSError", 0)}

\* psutil.disk_partitions(all=False) and the answer of disk_usage for each
DiskArgSet(n) ==
    UNION {[parts : {ps}, usage : [1..Len(ps) -> DiskUsages]] : ps \in SeqsUpTo(MountSet, n)}

DiskIdle == diskArgs = <<>> /\ diskOut = <<>>

InitDisk ==
    /\ diskArgs \in {<<a>> : a \in DiskArgSet(MaxParts)}
    /\ diskOut = <<>>

CallDiskPanel ==
    /\ diskArgs # <<>>
    /\ diskOut = <<>>
    /\ diskOut' = <<disk_panel(diskArgs[1].parts, diskArgs[1].usage)>>
    /\ UNCHANGED diskArgs

\* one process as process_iter yields it: its cpu_percent (None when psutil
\* was denied the value) and whether reading p.info raises
ProcKinds ==
    {[cpu |-> 0, bad |-> FALSE], [cpu |-> 2, bad |-> FALSE],
     [cpu |-> None, bad |-> FALSE], [cpu |-> 2, bad |-> TRUE]}

\* the process lists of at most n processes; the pid is the position in
\* the enumeration
ProcArgSet(n) ==
    {[i \in 1..Len(ks) |-> Proc(i, Str("python", 6, FALSE), ks[i].cpu, 2, ks[i].bad)] :
        ks \in SeqsUpTo(ProcKinds, n)}

ProcIdle == procArgs = <<>> /\ procOut = <<>>

InitProc ==
    /\ procArgs \in {<<a>> : a \in ProcArgSet(MaxProcs)}
    /\ procOut = <<>>

CallProcPanel ==
    /\ procArgs # <<>>
    /\ procOut = <<>>
    /\ procOut' = <<proc_panel(procArgs[1])>>
    /\ UNCHANGED procArgs

---------------------------------------------------------------------------
(* main() and refresh_panels().  pc is the statement the main thread is     *)
(* about to execute; inside refresh_panels it is the name of the region     *)
(* about to be built and updated.                                           *)

NoAnswers == [docker |-> "none", gpu |-> "none"]

MainIdle ==
    /\ once = FALSE /\ pc = "idle" /\ cycle = 0 /\ layout = <<>> /\ live = FALSE
    /\ screen = <<>> /\ printed = 0 /\ exitStatus = "running" /\ error = "none"
    /\ drawn = NoAnswers /\ trace = <<>>

\* parse_args(), Console(), build_layout()
InitMain ==
    /\ once \in BOOLEAN
    /\ pc = "prime_cpu"
    /\ cycle = 0
    /\ layout = build_layout
    /\ live = FALSE
    /\ screen = <<>>
    /\ printed = 0
    /\ exitStatus = "running"
    /\ error = "none"
    /\ drawn = NoAnswers
    /\ trace = <<>>

\* the statement after layout[name].update(...) in refresh_panels
AfterRegion(name) ==
    CASE name = "header" -> "cpu"
      [] name = "cpu" -> "mem"
      [] name = "mem" -> "disk"
      [] name = "disk" -> "proc"
      [] name = "proc" -> "net"
      [] name = "net" -> "docker"
      [] name = "docker" -> "gpu"
      [] name = "gpu" -> IF once THEN "print" ELSE "sleep"

\* an exception leaves main: Live.__exit__ stops the display on the way
\* out, the interpreter prints the traceback and the process ends
Unhandled(what, status) ==
    /\ error' = what
    /\ exitStatus' = status
    /\ live' = FALSE
    /\ pc' = "done"
    /\ UNCHANGED <<once, cycle, layout, screen, printed, trace>>

\* psutil.cpu_percent(percpu=True)
PrimeCpu ==
    /\ pc = "prime_cpu"
    /\ pc' = "prime_proc"
    /\ trace' = Append(trace, "prime_cpu")
    /\ UNCHANGED <<once, cycle, layout, live, screen, printed, exitStatus, error, drawn>>

\* for p in psutil.process_iter(["cpu_percent"]): pass
PrimeProc ==
    /\ pc = "prime_proc"
    /\ pc' = "prime_sleep"
    /\ trace' = Append(trace, "prime_proc")
    /\ UNCHANGED <<once, cycle, layout, live, screen, printed, exitStatus, error, drawn>>

\* time.sleep(0.5), then the test of args.once
PrimeSleep ==
    /\ pc = "prime_sleep"
    /\ pc' = IF once THEN "header" ELSE "live_start"
    /\ cycle' = IF once THEN 1 ELSE cycle
    /\ trace' = Append(trace, "sleep")
    /\ UNCHANGED <<once, layout, live, screen, printed, exitStatus, error, drawn>>

\* with Live(layout, refresh_per_second=2, screen=True): entering it draws
\* the layout once and starts the refresh thread; then the first cycle
LiveStart ==
    /\ pc = "live_start"
    /\ live' = TRUE
    /\ screen' = <<Snapshot(layout)>>
    /\ pc' = "header"
    /\ cycle' = 1
    /\ trace' = Append(trace, "live")
    /\ UNCHANGED <<once, layout, printed, exitStatus, error, drawn>>

\* the refresh thread of Live: draws the layout as it is, at any moment
AutoRefresh ==
    /\ live
    /\ screen' = <<Snapshot(layout)>>
    /\ UNCHANGED <<once, pc, cycle, layout, live, printed, exitStatus, error, drawn, trace>>

\* layout[name].update(builder()), r what the builder did
RefreshStep(name, r, answers) ==
    /\ pc = name
    /\ drawn' = answers
    /\ IF r.raised
       THEN Unhandled(name, "1")
       ELSE /\ layout' = Update(layout, name, r.panel, cycle)
            /\ pc' = AfterRegion(name)
            /\ trace' = Append(trace, name)
            /\ UNCHANGED <<once, cycle, live, screen, printed, exitStatus, error>>

UpdateHeader == \E up \in UpSamples : RefreshStep("header", header_panel(up), drawn)
UpdateCpu == \E s \in CpuSamples : RefreshStep("cpu", cpu_panel(s.percents, s.avg), drawn)
UpdateMem == \E s \in MemSamples : RefreshStep("mem", mem_panel(s.vm, s.sw), drawn)
UpdateDisk == \E s \in DiskSamples : RefreshStep("disk", disk_panel(s.parts, s.usage), drawn)
UpdateProc == \E s \in ProcSamples : RefreshStep("proc", proc_panel(s), drawn)
UpdateNet == \E s \in NetSamples : RefreshStep("net", net_panel(s), drawn)
UpdateDocker ==
    \E env \in DockerEnvsMain :
        RefreshStep("docker", docker_panel(env), [drawn EXCEPT !.docker = Answer(env)])
UpdateGpu ==
    \E env \in GpuEnvsMain :
        RefreshStep("gpu", gpu_panel(env), [drawn EXCEPT !.gpu = Answer(env)])

\* console.print(layout)
PrintLayout ==
    /\ pc = "print"
    /\ printed' = printed + 1
    /\ screen' = <<Snapshot(layout)>>
    /\ pc' = "return"
    /\ trace' = Append(trace, "print")
    /\ UNCHANGED <<once, cycle, layout, live, exitStatus, error, drawn>>

\* return from main: the process ends with status 0
Return ==
    /\ pc = "return"
    /\ exitStatus' = "0"
    /\ pc' = "done"
    /\ trace' = Append(trace, "return")
    /\ UNCHANGED <<once, cycle, layout, live, screen, printed, error, drawn>>

\* time.sleep(2), then the next refresh_panels(layout)
Sleep ==
    /\ pc = "sleep"
    /\ cycle < MaxCycles
    /\ cycle' = cycle + 1
    /\ pc' = "header"
    /\ drawn' = NoAnswers
    /\ trace' = Append(trace, "sleep")
    /\ UNCHANGED <<once, layout, live, screen, printed, exitStatus, error>>

\* SIGINT in continuous mode: KeyboardInterrupt is raised in the main
\* thread wherever it is; no handler in main (nor the builders' except
\* Exception clauses) catches it
Interrupt ==
    /\ ~once
    /\ pc \notin {"done", "idle"}
    /\ Unhandled("KeyboardInterrupt", "130")
    /\ UNCHANGED drawn

funVars == <<barVars, gpuVars, dockerVars, diskVars, procVars>>

NextMain ==
    \/ PrimeCpu /\ UNCHANGED funVars
    \/ PrimeProc /\ UNCHANGED funVars
    \/ PrimeSleep /\ UNCHANGED funVars
    \/ LiveStart /\ UNCHANGED funVars
    \/ AutoRefresh /\ UNCHANGED funVars
    \/ UpdateHeader /\ UNCHANGED funVars
    \/ UpdateCpu /\ UNCHANGED funVars
    \/ UpdateMem /\ UNCHANGED funVars
    \/ UpdateDisk /\ UNCHANGED funVars
    \/ UpdateProc /\ UNCHANGED funVars
    \/ UpdateNet /\ UNCHANGED funVars
    \/ UpdateDocker /\ UNCHANGED funVars
    \/ UpdateGpu /\ UNCHANGED funVars
    \/ PrintLayout /\ UNCHANGED funVars
    \/ Return /\ UNCHANGED funVars
    \/ Sleep /\ UNCHANGED funVars
    \/ Interrupt /\ UNCHANGED funVars

Init == InitMain /\ BarIdle /\ GpuIdle /\ DockerIdle /\ DiskIdle /\ ProcIdle
Spec == Init /\ [][NextMain]_vars

\* the steps of the main thread: it runs whenever it can (a sleep returns,
\* subprocess.run returns or raises within its timeout)
MainThread ==
    /\ \/ PrimeCpu \/ PrimeProc \/ PrimeSleep \/ LiveStart
       \/ UpdateHeader \/ UpdateCpu \/ UpdateMem \/ UpdateDisk \/ UpdateProc
       \/ UpdateNet \/ UpdateDocker \/ UpdateGpu
       \/ PrintLayout \/ Return \/ Sleep
    /\ UNCHANGED funVars
FairSpec == Init /\ [][NextMain]_vars /\ WF_vars(MainThread)

---------------------------------------------------------------------------
(* The specifications of the pure functions: Init draws the arguments, the  *)
(* action applies the function.                                             *)

InitBarSpec == InitBar /\ GpuIdle /\ DockerIdle /\ DiskIdle /\ ProcIdle /\ MainIdle
NextBar == CallMakeBar /\ UNCHANGED <<gpuVars, dockerVars, diskVars, procVars, mainVars>>
SpecBar == InitBarSpec /\ [][NextBar]_vars

InitTools ==
    /\ BarIdle /\ DiskIdle /\ ProcIdle /\ MainIdle
    /\ \/ InitGpu /\ DockerIdle
       \/ GpuIdle /\ InitDocker
NextTools ==
    \/ CallGpuPanel /\ UNCHANGED <<barVars, dockerVars, diskVars, procVars, mainVars>>
    \/ CallDockerPanel /\ UNCHANGED <<barVars, gpuVars, diskVars, procVars, mainVars>>
SpecTools == InitTools /\ [][NextTools]_vars

InitDiskSpec == InitDisk /\ BarIdle /\ GpuIdle /\ DockerIdle /\ ProcIdle /\ MainIdle
NextDisk == CallDiskPanel /\ UNCHANGED <<barVars, gpuVars, dockerVars, procVars, mainVars>>
SpecDisk == InitDiskSpec /\ [][NextDisk]_vars

InitProcSpec == InitProc /\ BarIdle /\ GpuIdle /\ DockerIdle /\ DiskIdle /\ MainIdle
NextProc == CallProcPanel /\ UNCHANGED <<barVars, gpuVars, dockerVars, diskVars, mainVars>>
SpecProc == InitProcSpec /\ [][NextProc]_vars

---------------------------------------------------------------------------
(* Claims about make_bar (SpecBar).                                         *)

\* C1: make_bar styles the bar red when p > 85, yellow when 60 < p <= 85 and
\* with the caller's colour c otherwise, whatever c is; for a c that is not
\* itself red or yellow the bar is red iff p > 85 and yellow iff 60 < p <= 85.
C1_ColorTiers ==
    barOut # <<>> =>
        LET p == barArgs[1].pct
            c == barArgs[1].color
            s == barOut[1].barStyle
        IN /\ (p > 85 * Scale => s = "red")
           /\ (p > 60 * Scale /\ p <= 85 * Scale => s = "yellow")
           /\ (p <= 60 * Scale => s = c)
           /\ (c \notin {"red", "yellow"} =>
                 /\ (s = "red" <=> p > 85 * Scale)
                 /\ (s = "yellow" <=> (p > 60 * Scale /\ p <= 85 * Scale)))
           /\ barOut[1].pctStyle = <<"bold", s>>

\* C1 witness: exactly 85 percent with base colour cyan came out yellow
C1_Witness ==
    /\ barOut # <<>>
    /\ barArgs[1].pct = 85 * Scale
    /\ barArgs[1].color = "cyan"
    /\ barOut[1].barStyle = "yellow"

---------------------------------------------------------------------------
(* Claims about gpu_panel and docker_panel (SpecTools).                     *)

\* the number of comma-separated fields of a line
FieldCount(row) == Cardinality({i \in 1..Len(row) : row[i] = ","}) + 1
\* a record of exactly 6 fields whose utilization parses as a number
WellFormed(row) == FieldCount(row) = 6 /\ ~FloatRaises(SplitComma(row)[3])
\* a successful run of nvidia-smi
GpuRanOk == gpuEnv[1].which /\ gpuEnv[1].run.kind = "exit" /\ gpuEnv[1].run.returncode = 0
GpuStdout == gpuEnv[1].run.stdout
GpuNoUsable == \A i \in 1..Len(GpuStdout) : FieldCount(GpuStdout[i]) < 6
GpuNonZero ==
    gpuEnv[1].which /\ gpuEnv[1].run.kind = "exit" /\ gpuEnv[1].run.returncode # 0
GpuTimeout == gpuEnv[1].which /\ gpuEnv[1].run.kind = "timeout"

\* each tool outcome has its fallback text, and the text tells the outcome
GpuFallbackTexts ==
    LET panel == gpuOut[1].panel IN
    /\ ~gpuOut[1].raised
    /\ ~gpuEnv[1].which <=> (panel.kind = "text" /\ Contains(panel.text, <<"not", "found">>))
    /\ GpuNonZero <=> (panel.kind = "text" /\ Contains(panel.text, <<"error">>))
    /\ (GpuRanOk /\ GpuNoUsable) <=>
           (panel.kind = "text" /\ panel.text = <<"No", "GPU", "data", "returned">>)
    /\ GpuTimeout => (panel.kind = "text" /\ panel.text = <<"No", "GPU", "detected">>)
    /\ (panel.kind = "text" /\ panel.text = <<"No", "GPU", "detected">>) =>
           ~(~gpuEnv[1].which \/ GpuNonZero \/ (GpuRanOk /\ GpuNoUsable))

\* C6 as stated: the four fallbacks, and no fallback at all for a run that
\* yields at least one well-formed record.
C6_Original ==
    gpuOut # <<>> =>
        /\ GpuFallbackTexts
        /\ (GpuRanOk /\ \E i \in 1..Len(GpuStdout) : WellFormed(GpuStdout[i]))
               => gpuOut[1].panel.kind = "lines"

\* C6 amended: the four fallbacks (not found, error, no data, generic on a
\* timeout) are distinguishable, and none is produced for a run that yields
\* at least one well-formed record and no record that has more than 6
\* fields or has 6 fields with a utilization that is not a number.
C6_GpuFallbacks ==
    gpuOut # <<>> =>
        /\ GpuFallbackTexts
        /\ (/\ GpuRanOk
            /\ \E i \in 1..Len(GpuStdout) : WellFormed(GpuStdout[i])
            /\ \A i \in 1..Len(GpuStdout) :
                   FieldCount(GpuStdout[i]) < 6 \/ WellFormed(GpuStdout[i]))
               => gpuOut[1].panel.kind = "lines"

\* C6 witness: a successful run whose only records are short gave "no data"
C6_Witness ==
    /\ gpuOut # <<>>
    /\ GpuRanOk
    /\ GpuStdout = <<RowShort, RowShort>>
    /\ gpuOut[1].panel.text = <<"No", "GPU", "data", "returned">>

\* the 6-field records of the output, in output order
SixFieldRows == SelectSeq(GpuStdout, LAMBDA r : FieldCount(r) = 6)

\* one bar, one detail line and one blank line per 6-field record, in order
GpuOneBarPerRecord ==
    LET good == SixFieldRows
        panel == gpuOut[1].panel
    IN /\ panel.kind = "lines"
       /\ Len(panel.lines) = 3 * Len(good)
       /\ \A k \in 1..Len(good) :
            LET f == SplitComma(good[k])
                bar == panel.lines[3 * k - 2]
                detail == panel.lines[3 * k - 1]
            IN /\ bar.t = "bar"
               /\ bar.bar.label = <<"GPU", f[1][1]>>
               /\ bar.bar.pct = FloatOf(f[3]) * Scale
               /\ detail.t = "detail"
               /\ detail.name = f[2] /\ detail.mem_used = f[4]
               /\ detail.mem_total = f[5] /\ detail.temp = f[6]
               /\ detail.unit = "C"
               /\ panel.lines[3 * k].t = "blank"

\* C7 as stated: every successful output made of 6-field records and shorter
\* ones renders one bar and one detail line per 6-field record, in order.
C7_Original ==
    (/\ gpuOut # <<>>
     /\ GpuRanOk
     /\ \A i \in 1..Len(GpuStdout) : FieldCount(GpuStdout[i]) <= 6
     /\ SixFieldRows # <<>>)
        => GpuOneBarPerRecord

\* C7 amended: every successful output made of 6-field records with a
\* numeric utilization and of shorter records renders one bar and one
\* detail line per 6-field record, in output order; the shorter records are
\* skipped and change nothing.
C7_OneBarPerRecord ==
    (/\ gpuOut # <<>>
     /\ GpuRanOk
     /\ \A i \in 1..Len(GpuStdout) : FieldCount(GpuStdout[i]) < 6 \/ WellFormed(GpuStdout[i])
     /\ SixFieldRows # <<>>)
        => GpuOneBarPerRecord

\* C7 witness: a short record between two well-formed ones, two bars shown
C7_Witness ==
    /\ gpuOut # <<>>
    /\ GpuRanOk
    /\ GpuStdout = <<RowGood0, RowShort, RowGood1>>
    /\ Len(gpuOut[1].panel.lines) = 6

\* a "run" call only after a "which" call that found the tool
SpawnAfterLookup(env, out) ==
    /\ ~env.which => \A i \in 1..Len(out.calls) : out.calls[i] # "run"
    /\ \A i \in 1..Len(out.calls) :
           out.calls[i] = "run" =>
               env.which /\ \E j \in 1..(i - 1) : out.calls[j] = "which"

\* C8: a tool that is not on the search path is never spawned and the
\* builder returns its not-found text; a process is spawned only after a
\* successful lookup in the same builder call.
C8_NoSpawnWithoutLookup ==
    /\ gpuOut # <<>> =>
         /\ SpawnAfterLookup(gpuEnv[1], gpuOut[1])
         /\ ~gpuEnv[1].which =>
                gpuOut[1].panel.text =
                    <<"No", "GPU", "detected", "(", "nvidia-smi", "not", "found", ")">>
    /\ dockerOut # <<>> =>
         /\ SpawnAfterLookup(dockerEnv[1], dockerOut[1])
         /\ ~dockerEnv[1].which =>
                dockerOut[1].panel.text.chars = "docker not found in PATH"

\* C8 witness: gpu_panel was called with nvidia-smi missing and spawned nothing
C8_Witness ==
    /\ gpuOut # <<>>
    /\ ~gpuEnv[1].which
    /\ gpuOut[1].calls = <<"which">>

\* the lines of the docker output that are container records
DockerStdout == dockerEnv[1].run.stdout
DockerRecords == SelectSeq(DockerStdout, LAMBDA l : l # <<>> /\ l[1].json = "object")

\* C10 as stated: for every successful, non-empty 'docker ps' output the
\* panel is the container table with exactly one row per line that is a
\* container record, in order; any other line adds nothing and never turns
\* the panel into a fallback text.
C10_BadLineSkipped ==
    (/\ dockerOut # <<>>
     /\ dockerEnv[1].which
     /\ dockerEnv[1].run.kind = "exit"
     /\ dockerEnv[1].run.returncode = 0
     /\ \E i \in 1..Len(DockerStdout) : DockerStdout[i] # <<>>)
        => LET panel == dockerOut[1].panel IN
           /\ panel.kind = "table"
           /\ Len(panel.rows) = Len(DockerRecords)
           /\ \A k \in 1..Len(DockerRecords) :
                  panel.rows[k].name.chars = DockerRecords[k][1].obj.Names.chars

---------------------------------------------------------------------------
(* Claims about main and refresh_panels (Spec).                             *)

\* every region holds a block made in the current cycle
CycleComplete == \A r \in RegionSet : layout[r].cycle = cycle

\* C2 as stated: no exception ever leaves a panel builder, so that a
\* refresh cycle that has ended has updated all eight regions.
C2_BuildersNeverRaise ==
    /\ error \notin RegionSet
    /\ pc \in {"sleep", "print"} => CycleComplete

\* C3 as stated: a redraw in continuous mode in which every region already
\* holds a block shows eight blocks of one and the same cycle, never some
\* of cycle n and others of cycle n-1.
C3_RedrawBetweenCycles ==
    (~once /\ screen # <<>> /\ \A r \in RegionSet : screen[1][r] >= 1) =>
        \A r1, r2 \in RegionSet : screen[1][r1] = screen[1][r2]

\* C4 as stated: single-shot mode does the two priming reads, the wait, one
\* cycle over the eight regions and one emission, in this order, and ends
\* with status 0; it never starts the live display and never emits before
\* the cycle has finished.
C4_SingleShot ==
    once =>
        /\ ~live /\ pc \notin {"live_start", "sleep"}
        /\ printed <= 1 /\ cycle <= 1
        /\ printed = 1 => CycleComplete
        /\ pc = "done" =>
             /\ exitStatus = "0"
             /\ printed = 1
             /\ trace = <<"prime_cpu", "prime_proc", "sleep", "header", "cpu", "mem",
                          "disk", "proc", "net", "docker", "gpu", "print", "return">>

\* C5 as stated: continuous mode ended by an interrupt that arrives once
\* the live display runs (in a refresh cycle or in the sleep) exits with
\* status 0.
C5_InterruptExitsZero ==
    (/\ ~once
     /\ error = "KeyboardInterrupt"
     /\ \E i \in 1..Len(trace) : trace[i] = "live")
        => exitStatus = "0"

\* the regions docker_panel and gpu_panel fill
ToolRegions == {"docker", "gpu"}
DockerFallback == DockerMsgPanel(Str("Could not query Docker", 22, FALSE))
GpuFallback == TextPanel("GPU Usage", <<"No", "GPU", "detected">>)

\* a step of refresh_panels in which docker or nvidia-smi hits its timeout
\* puts that panel's fallback block in its region, leaves every other
\* region alone and goes on to the next statement; the cycle then ends
\* with every region updated in this cycle, the psutil regions with their
\* tables and bars; the step after the sleep starts the next cycle
TimeoutSteps ==
    [][ /\ (pc = "docker" /\ drawn'.docker = "timeout") =>
              /\ pc' = "gpu"
              /\ layout' = [layout EXCEPT !["docker"].panel = DockerFallback,
                                          !["docker"].cycle = cycle]
        /\ (pc = "gpu" /\ drawn'.gpu = "timeout") =>
              /\ pc' = IF once THEN "print" ELSE "sleep"
              /\ layout' = [layout EXCEPT !["gpu"].panel = GpuFallback,
                                          !["gpu"].cycle = cycle]
        /\ (pc = "gpu" /\ pc' # "gpu" /\ "timeout" \in {drawn'.docker, drawn'.gpu}
                /\ error' # "KeyboardInterrupt") =>
              /\ pc' \in {"print", "sleep"}
              /\ \A r \in RegionSet : layout'[r].cycle = cycle
              /\ \A r \in RegionSet \ ToolRegions :
                     layout'[r].panel.kind \in {"text", "lines", "table"}
        /\ (pc = "sleep" /\ pc' # "sleep" /\ error' # "KeyboardInterrupt") =>
              pc' = "header" /\ cycle' = cycle + 1
      ]_vars

\* the cycle in which a tool timed out is over, or an interrupt ended main
TimeoutCycleEnds ==
    ("timeout" \in {drawn.docker, drawn.gpu} /\ pc \in {"docker", "gpu"})
        ~> ((pc \in {"sleep", "print"} /\ CycleComplete) \/ error = "KeyboardInterrupt")

\* the cycle after the one in which a tool timed out has started
NextCycleStarts ==
    ("timeout" \in {drawn.docker, drawn.gpu} /\ pc = "sleep" /\ cycle < MaxCycles)
        ~> (pc = "header" \/ error = "KeyboardInterrupt")

\* C9: when docker or nvidia-smi hits its timeout in a cycle, that region
\* gets its fallback block, every other region its block of this cycle,
\* the cycle ends and (in continuous mode, unless an interrupt ends the
\* program) the next cycle starts: refresh_panels is never stalled.
C9_TimeoutCycleGoesOn ==
    /\ TimeoutSteps
    /\ TimeoutCycleEnds
    /\ NextCycleStarts

\* C9 witness: a continuous cycle after the first in which docker timed out has ended
C9_Witness ==
    /\ ~once
    /\ pc = "sleep"
    /\ cycle = 2
    /\ drawn.docker = "timeout"
    /\ layout["docker"].panel = DockerFallback
    /\ CycleComplete

---------------------------------------------------------------------------
(* Claims about disk_panel (SpecDisk).                                      *)

\* the partitions whose usage query did not raise PermissionError, in
\* enumeration order, each with what the query answered
DiskRemaining ==
    LET a == diskArgs[1]
        asked == [i \in 1..Len(a.parts) |-> [mount |-> a.parts[i], u |-> a.usage[i]]]
    IN SelectSeq(asked, LAMBDA x : x.u.kind # "PermissionError")

\* C11: for every partition list in which some usage queries raise
\* PermissionError (and the others succeed), disk_panel returns a table
\* with exactly one row per remaining partition, in enumeration order, and
\* no row of any kind for a partition whose query failed.
C11_PermissionSkipped ==
    (/\ diskOut # <<>>
     /\ \A i \in 1..Len(diskArgs[1].usage) :
            diskArgs[1].usage[i].kind \in {"ok", "PermissionError"})
        => LET panel == diskOut[1].panel IN
           /\ ~diskOut[1].raised
           /\ panel.kind = "table"
           /\ Len(panel.rows) = Len(DiskRemaining)
           /\ \A k \in 1..Len(DiskRemaining) :
                  /\ panel.rows[k].mount = DiskRemaining[k].mount
                  /\ panel.rows[k].pct = DiskRemaining[k].u.percent

\* C11 witness: the middle one of three partitions may not be read, and the
\* table has the two others, in order
C11_Witness ==
    /\ diskOut # <<>>
    /\ diskArgs[1].parts = <<"/", "/home", "/mnt/data">>
    /\ diskArgs[1].usage[1].kind = "ok"
    /\ diskArgs[1].usage[2].kind = "PermissionError"
    /\ diskArgs[1].usage[3].kind = "ok"
    /\ Len(diskOut[1].panel.rows) = 2
    /\ diskOut[1].panel.rows[1].mount = "/"
    /\ diskOut[1].panel.rows[2].mount = "/mnt/data"

---------------------------------------------------------------------------
(* Claims about proc_panel (SpecProc).                                      *)

\* the processes whose info could be read, in enumeration order
ProcReadable == SelectSeq(procArgs[1], LAMBDA q : ~q.info_raises)
\* the CPU percent a process is ranked by (a percent that is not known
\* counts as 0)
RankKey(q) == IF q.cpu_percent = None THEN 0 ELSE q.cpu_percent
\* q1 ranks before q2: a higher CPU percent, or the same and enumerated
\* earlier (the pid is the position in the enumeration)
RanksBefore(q1, q2) ==
    \/ RankKey(q1) > RankKey(q2)
    \/ RankKey(q1) = RankKey(q2) /\ q1.pid < q2.pid

\* C12 as stated: for every enumerated process list proc_panel shows
\* min(5, number of readable processes) rows; row k is the readable process
\* that exactly k - 1 readable processes rank before, i.e. the rows are the
\* readable processes of highest CPU percent, in descending order, ties in
\* enumeration order, the unreadable ones left out before the ranking.
C12_TopFiveStable ==
    procOut # <<>> =>
        LET panel == procOut[1].panel
            n == Len(ProcReadable)
        IN /\ ~procOut[1].raised
           /\ panel.kind = "table"
           /\ Len(panel.rows) = Min(5, n)
           /\ \A k \in 1..Len(panel.rows) :
                  \E i \in 1..n :
                      /\ ProcReadable[i].pid = panel.rows[k].pid
                      /\ Cardinality({j \in 1..n :
                             RanksBefore(ProcReadable[j], ProcReadable[i])}) = k - 1

---------------------------------------------------------------------------
(* Claims about the layout (Spec).                                          *)

\* the nodes of the layout that are not split: the panel regions
Leaves(l) == {n \in DOMAIN l : l[n].children = <<>>}

\* C13: from build_layout on and after any number of refresh cycles, in
\* both modes and whatever the builders sampled, the panel regions of the
\* layout are exactly header, cpu, mem, disk, proc, net, docker and gpu,
\* each at its fixed place in the tree: header above the upper row (cpu,
\* mem) above the lower row, whose left column is disk above net and whose
\* right column is proc above docker above gpu.  refresh_panels replaces
\* contents only.
C13_RegionsFixed ==
    pc # "idle" =>
        /\ Leaves(layout) = {"header", "cpu", "mem", "disk", "proc", "net", "docker", "gpu"}
        /\ DOMAIN layout = Leaves(layout) \cup {"root", "upper", "lower", "left", "right"}
        /\ layout["root"].children = <<"header", "upper", "lower">>
        /\ layout["upper"].children = <<"cpu", "mem">>
        /\ layout["lower"].children = <<"left", "right">>
        /\ layout["left"].children = <<"disk", "net">>
        /\ layout["right"].children = <<"proc", "docker", "gpu">>

\* C13 witness: two full cycles of the continuous loop have replaced the
\* contents of all eight regions
C13_Witness ==
    /\ ~once
    /\ pc = "sleep"
    /\ cycle = 2
    /\ \A r \in RegionSet : layout[r].cycle = 2 /\ layout[r].panel.kind # "placeholder"

---------------------------------------------------------------------------
(* Claims about the bar length (SpecBar).                                   *)

\* round(num / den): the nearest integer, a half going to the even one
Round(num, den) ==
    LET q == num \div den
        r == num % den
    IN IF 2 * r < den THEN q
       ELSE IF 2 * r > den THEN q + 1
       ELSE IF q % 2 = 0 THEN q ELSE q + 1

\* C14 as stated: for every percent p in 0..100 the bar of make_bar has
\* round(30 * p / 100) filled cells, the nearest whole number of cells and
\* not the number rounded down, and the other cells of the 30 are empty.
C14_FilledIsRounded ==
    barOut # <<>> =>
        /\ barOut[1].filled = Round(30 * barArgs[1].pct, 100 * Scale)
        /\ barOut[1].filled + barOut[1].empty = 30

---------------------------------------------------------------------------
(* Claims about the continuous loop (Spec).                                 *)

\* what main does before the loop, and the steps of one turn of the loop
PrimingSteps == <<"prime_cpu", "prime_proc", "sleep", "live">>
CycleSteps == <<"header", "cpu", "mem", "disk", "proc", "net", "docker", "gpu", "sleep">>

\* the steps main has completed since the loop was entered
LoopTrace == SubSeq(trace, Len(PrimingSteps) + 1, Len(trace))

\* C15 as stated: in continuous mode, after the priming, the steps of main
\* are the eight updates in the order header, cpu, mem, disk, proc, net,
\* docker, gpu, then the sleep, then the same again, cycle after cycle; no
\* cycle ends with a region skipped, and main ends only when an external
\* interrupt arrives.
C15_LoopNeverEnds ==
    (~once /\ pc # "idle") =>
        /\ \A i \in 1..Min(Len(trace), Len(PrimingSteps)) : trace[i] = PrimingSteps[i]
        /\ \A i \in 1..Len(LoopTrace) :
               LoopTrace[i] = CycleSteps[((i - 1) % Len(CycleSteps)) + 1]
        /\ pc = "sleep" => CycleComplete
        /\ pc = "done" => error = "KeyboardInterrupt"

\* C16 as stated: in continuous mode every draw, from the start of the live
\* display on, shows all eight regions holding a panel block a builder
\* made: nothing is drawn before the first cycle has filled every region.
C16_NoDrawBeforeFilled ==
    (~once /\ screen # <<>>) => \A r \in RegionSet : screen[1][r] >= 1

---------------------------------------------------------------------------
(* A further claim about gpu_panel (SpecTools).                             *)

\* a record gpu_panel can neither skip nor render: more than 6 fields, or
\* 6 fields and a utilization that is not a number
GpuBadRecord(row) ==
    \/ FieldCount(row) > 6
    \/ FieldCount(row) = 6 /\ FloatRaises(SplitComma(row)[3])

\* C17: a successful nvidia-smi output with at least one record of more
\* than 6 fields, or of 6 fields with a non-numeric utilization, makes the
\* whole panel the generic "No GPU detected" text, wherever the record
\* stands in the output: the bars built from the well-formed records
\* before it are dropped, and no exception leaves gpu_panel.
C17_BadRecordDropsAll ==
    (/\ gpuOut # <<>>
     /\ GpuRanOk
     /\ \E i \in 1..Len(GpuStdout) : GpuBadRecord(GpuStdout[i]))
        => /\ ~gpuOut[1].raised
           /\ gpuOut[1].panel.title = "GPU Usage"
           /\ gpuOut[1].panel.kind = "text"
           /\ gpuOut[1].panel.text = <<"No", "GPU", "detected">>
           /\ gpuOut[1].panel.lines = <<>>

\* C17 witness: a record with a non-numeric utilization between two
\* well-formed ones, and the panel is the generic text
C17_Witness ==
    /\ gpuOut # <<>>
    /\ GpuRanOk
    /\ GpuStdout = <<RowGood0, RowNotNumeric, RowGood1>>
    /\ gpuOut[1].panel.text = <<"No", "GPU", "detected">>

===========================================================================
